---- MODULE Spec2Model ----
(***************************************************************************)
(* A model of the agent-mediation core of master-of-tg-ads:                *)
(*   - the broker MCPServer with its registry, retry policy and permission *)
(*     map (src/MCPServer.py),                                             *)
(*   - the template method BaseAgent.handle and the four concrete agents   *)
(*     (src/agents/*.py),                                                  *)
(*   - the pipeline driver AIAssistant.run_advertising_pipeline            *)
(*     (src/ai_assistant/src/ai_assistant.py).                             *)
(* Three specifications share the variables: SpecBroker drives the broker, *)
(* SpecAgent drives single handle calls on agents built with any           *)
(* capability, SpecPipeline drives the pipeline as the orchestrator wires  *)
(* it.                                                                     *)
(***************************************************************************)
EXTENDS Integers, Sequences, FiniteSets, TLC

VARIABLES
    registry,           \* ToolRegistry._tools: tool name -> behaviour of the tool
    agent_permissions,  \* MCPServer._agent_permissions: agent name -> list of tools
    last,               \* the latest MCPServer.call: its inputs and what it did
    prev,               \* the call before it (tool, kwargs, outcome, result)
    lastRun,            \* the latest direct SimpleRetryPolicy.run
    ncalls,             \* number of MCPServer.call invocations so far
    nsetup,             \* number of register / set_agent_permissions so far
    h,                  \* the latest single handle call: inputs and what it did
    pc,                 \* where run_advertising_pipeline stands
    pipeBrief,          \* the payload the running pipeline was given
    pipeContext,        \* the context threaded through the stages
    stages,             \* the handle calls of the running pipeline, in order
    pipeError,          \* the exception leaving run_advertising_pipeline
    pipeResult,         \* the mapping run_advertising_pipeline returns
    nruns,              \* number of pipeline runs started so far
    cache,              \* InMemoryCachePolicy._store of the broker's cache
    adapter,            \* the latest TextLLMAdapter.generate_ad_copy call
    built,              \* whether AIAssistant() has been constructed
    agents,             \* the keys of AIAssistant.agents
    shared_permissions, \* permission map of the broker _initialize_agents built
    tasks,              \* the entry-point calls in flight, one per task
    nbrokers,           \* number of MCPServer instances constructed so far
    nstarted,           \* number of entry-point calls started so far
    local,              \* MetricsCollector._local
    lock,               \* whether MetricsCollector._lock is held
    threads,            \* where each thread stands in its collector call
    applied,            \* the log_query calls made since the last reset
    snapshot,           \* the latest mapping get_metrics decided to return
    nqueries,           \* number of log_query calls started so far
    qa,                 \* the latest verdict of an inspector built with rules
    got,                \* the latest InMemoryCachePolicy.get
    secured,            \* the latest call on a broker built with a checker
    state,              \* AppState: the assistant and the request counters
    request_queue,      \* AppState.request_queue
    reqs,               \* where each handler of POST /api/generate stands
    nreqs               \* number of requests received so far

brokerVars == <<registry, agent_permissions, last, prev, lastRun, ncalls,
                nsetup, cache>>

pipeVars == <<pc, pipeBrief, pipeContext, stages, pipeError, pipeResult,
             nruns>>

asstVars == <<built, agents, shared_permissions, tasks, nbrokers, nstarted>>

metVars == <<local, lock, threads, applied, snapshot, nqueries>>

apiVars == <<state, request_queue, reqs, nreqs>>

lateVars == <<qa, got, secured, apiVars>>

extVars == <<adapter, asstVars, metVars, lateVars>>

vars == <<brokerVars, h, pipeVars, extVars>>

----------------------------------------------------------------------------
(* Bounds of the model. *)

MaxCalls == 2
MaxSetup == 2
MaxKw == 2
MaxRuns == 2
HashBuckets == 2

(* Program constants. *)

DefaultRetries == 3

----------------------------------------------------------------------------
(* Names. *)

ToolNames == {"text.generate", "image.generate", "compliance.check"}

AgentNames == {"PromptAgent", "CopywriterAgent", "BannerDesignerAgent",
               "QAComplianceAgent"}

\* agent_name defaults to None
NoAgent == "None"

\* The permission lists the agents, the orchestrator and the tests hand over.
PermLists == {<<>>, <<"text.generate">>, <<"image.generate">>}

\* Keyword arguments of a call, as abstract values.
Kwargs == 0 .. (MaxKw - 1)

\* A registered tool fails on its first k invocations of one call and then
\* succeeds; k = retries is a tool that raises on every attempt of the call.
Behaviours == 0 .. DefaultRetries

InList(x, l) == \E i \in DOMAIN l : l[i] = x

----------------------------------------------------------------------------
(* Results of calls. *)

NoResult == [tag |-> "none", val |-> 0]

\* What a tool's execute returns for the keyword arguments kw.
ExecuteValue(tool_name, kw) == [tag |-> tool_name, val |-> kw]

\* hash(str(kwargs)): equal keyword arguments hash equally, different ones
\* may collide.
StrHash(kw) == kw % HashBuckets

----------------------------------------------------------------------------
(* SimpleRetryPolicy.run: the loop over attempt = 1 .. retries.  The        *)
(* operation fails on its first k invocations and succeeds afterwards.      *)

RECURSIVE RunLoop(_, _, _, _)
RunLoop(attempt, k, retries, slept) ==
    IF attempt > retries
    THEN \* the loop is exhausted: raise ToolExecutionError from last_exc
         [outcome |-> "ToolExecutionError", attempts |-> attempt - 1,
          sleeps |-> slept]
    ELSE IF attempt > k
         THEN \* return await operation()
              [outcome |-> "returned", attempts |-> attempt, sleeps |-> slept]
         ELSE \* except: sleep unless this was the last attempt
              RunLoop(attempt + 1, k, retries,
                      IF attempt < retries THEN slept + 1 ELSE slept)

run(k, retries) == RunLoop(1, k, retries, 0)

----------------------------------------------------------------------------
(* MCPServer.call.  The body neither reads the permission map, the         *)
(* registry, the cache nor the retry policy: it answers two tool names     *)
(* with a fixed mapping and raises ToolNotFoundError for every other name. *)
(* execs and sleeps count the invocations of execute and of asyncio.sleep  *)
(* the call makes.                                                         *)

\* The stub address built from the call's start_time instead of the hash of
\* the keyword arguments: it differs from one call to the next.
ImageStub_timed(tool_name, kw) ==
    [tag |-> "stub://image.generate/", val |-> ncalls]

ImageStub(tool_name, kw) ==
    [tag |-> "stub://image.generate/", val |-> StrHash(kw)]

ComplianceStub == [tag |-> "compliance.stub", val |-> 0]

call(tool_name, agent_name, kw) ==
    IF tool_name = "image.generate"
    THEN [outcome |-> "returned", result |-> ImageStub(tool_name, kw),
          execs |-> 0, sleeps |-> 0]
    ELSE IF tool_name = "compliance.check"
         THEN [outcome |-> "returned", result |-> ComplianceStub,
               execs |-> 0, sleeps |-> 0]
         ELSE [outcome |-> "ToolNotFoundError", result |-> NoResult,
               execs |-> 0, sleeps |-> 0]

\* MCPServer.get_agent_permissions
get_agent_permissions(agent_name) ==
    IF agent_name \in DOMAIN agent_permissions
    THEN agent_permissions[agent_name]
    ELSE <<>>

----------------------------------------------------------------------------
(* The broker's state machine. *)

NoCall == [tool |-> "none", agent |-> NoAgent, kw |-> 0, outcome |-> "none",
           result |-> NoResult, execs |-> 0, sleeps |-> 0,
           registered |-> FALSE, behaviour |-> 0, hasPerms |-> FALSE,
           permitted |-> FALSE, cached |-> [x \in {} |-> 0],
           stored |-> [x \in {} |-> 0]]

NoPrev == [tool |-> "none", kw |-> 0, outcome |-> "none",
           result |-> NoResult, execs |-> 0]

NoRun == [k |-> 0, outcome |-> "none", attempts |-> 0, sleeps |-> 0]

EmptyMap == [x \in {} |-> 0]

InitBroker ==
    /\ registry = EmptyMap
    /\ agent_permissions = EmptyMap
    /\ last = NoCall
    /\ prev = NoPrev
    /\ lastRun = NoRun
    /\ ncalls = 0
    /\ nsetup = 0
    /\ cache = EmptyMap

\* ToolRegistry.register
register(tool_name, k) ==
    /\ nsetup < MaxSetup
    /\ registry' = [t \in DOMAIN registry \cup {tool_name} |->
                        IF t = tool_name THEN k ELSE registry[t]]
    /\ nsetup' = nsetup + 1
    /\ UNCHANGED <<agent_permissions, last, prev, lastRun, ncalls, cache, h,
                   pipeVars, extVars>>

\* A set that extends the list the agent already has instead of replacing it.
set_agent_permissions_merging(agent_name, allowed_tools) ==
    /\ nsetup < MaxSetup
    /\ agent_permissions' =
           [a \in DOMAIN agent_permissions \cup {agent_name} |->
                IF a = agent_name
                THEN get_agent_permissions(agent_name) \o allowed_tools
                ELSE agent_permissions[a]]
    /\ nsetup' = nsetup + 1
    /\ UNCHANGED <<registry, last, prev, lastRun, ncalls, cache, h, pipeVars,
                   extVars>>

\* MCPServer.set_agent_permissions
set_agent_permissions(agent_name, allowed_tools) ==
    /\ nsetup < MaxSetup
    /\ agent_permissions' =
           [a \in DOMAIN agent_permissions \cup {agent_name} |->
                IF a = agent_name THEN allowed_tools ELSE agent_permissions[a]]
    /\ nsetup' = nsetup + 1
    /\ UNCHANGED <<registry, last, prev, lastRun, ncalls, cache, h, pipeVars,
                   extVars>>

\* The keys and the value an entry of the cache can have: a tool name with
\* the hash of the keyword arguments, and a result stored earlier.
CacheKeys == ToolNames \X (0 .. (HashBuckets - 1))

StoredResult == [tag |-> "stored", val |-> 0]

\* InMemoryCachePolicy.set
cache_set(key, value) ==
    /\ nsetup < MaxSetup
    /\ cache' = [x \in DOMAIN cache \cup {key} |->
                     IF x = key THEN value ELSE cache[x]]
    /\ nsetup' = nsetup + 1
    /\ UNCHANGED <<registry, agent_permissions, last, prev, lastRun, ncalls, h,
                   pipeVars, extVars>>

\* One MCPServer.call, with what the registry and the permission map held
\* when it was made.
Call(tool_name, agent_name, kw) ==
    /\ ncalls < MaxCalls
    /\ LET r == call(tool_name, agent_name, kw) IN
       /\ last' = [tool |-> tool_name, agent |-> agent_name, kw |-> kw,
                   outcome |-> r.outcome, result |-> r.result,
                   execs |-> r.execs, sleeps |-> r.sleeps,
                   registered |-> tool_name \in DOMAIN registry,
                   behaviour |-> IF tool_name \in DOMAIN registry
                                 THEN registry[tool_name] ELSE 0,
                   hasPerms |-> agent_name \in DOMAIN agent_permissions,
                   permitted |-> InList(tool_name,
                                        get_agent_permissions(agent_name)),
                   \* the cache before and after the call: call does not
                   \* touch self.cache
                   cached |-> cache, stored |-> cache]
       /\ prev' = [tool |-> last.tool, kw |-> last.kw,
                   outcome |-> last.outcome, result |-> last.result,
                   execs |-> last.execs]
    /\ ncalls' = ncalls + 1
    /\ UNCHANGED <<registry, agent_permissions, lastRun, nsetup, cache, h,
                   pipeVars, extVars>>

\* retry_policy.run applied to the execute of a registered tool.
PolicyRun(tool_name) ==
    /\ tool_name \in DOMAIN registry
    /\ LET r == run(registry[tool_name], DefaultRetries) IN
       lastRun' = [k |-> registry[tool_name], outcome |-> r.outcome,
                   attempts |-> r.attempts, sleeps |-> r.sleeps]
    /\ UNCHANGED <<registry, agent_permissions, last, prev, ncalls, nsetup,
                   cache, h, pipeVars, extVars>>

NextBroker ==
    \/ \E t \in ToolNames, k \in Behaviours : register(t, k)
    \/ \E a \in AgentNames, l \in PermLists : set_agent_permissions(a, l)
    \/ \E key \in CacheKeys : cache_set(key, StoredResult)
    \/ \E t \in ToolNames, a \in AgentNames \cup {NoAgent}, kw \in Kwargs :
           Call(t, a, kw)
    \/ \E t \in ToolNames : PolicyRun(t)


----------------------------------------------------------------------------
(* Payloads and contexts.  A context is a mapping from keys to values; a    *)
(* payload is a context or something that is not a mapping.                 *)

EmptyCtx == [x \in {} |-> ""]

Dict(ctx) == [isDict |-> TRUE, ctx |-> ctx]

NotADict == [isDict |-> FALSE, ctx |-> EmptyCtx]

Has(ctx, key) == key \in DOMAIN ctx

Put(ctx, key, value) ==
    [x \in DOMAIN ctx \cup {key} |-> IF x = key THEN value ELSE ctx[x]]

\* A text: its length and whether it holds a word of the profanity list.
Text(n, p) == [len |-> n, profane |-> p]

EmptyText == Text(0, FALSE)

\* The Telegram Ads limit on the advertising text.
TextLimit == 160

----------------------------------------------------------------------------
(* Exceptions. *)

NoExc == [type |-> "none", detail |-> "", missing |-> {}]

Exc(type, detail) == [type |-> type, detail |-> detail, missing |-> {}]

\* ValueError whose message lists the missing fields
MissingFields(fields) ==
    [type |-> "ValueError", detail |-> "missing fields", missing |-> fields]

Raised(e) == e.type # "none"

----------------------------------------------------------------------------
(* validate of the four agents: BaseAgent.validate, then the required keys. *)

BriefFields == {"product", "product_type", "audience", "goal"}

required_fields(agent) ==
    CASE agent = "PromptAgent" -> BriefFields
      [] agent = "CopywriterAgent" -> {"target_text_prompt"}
      [] agent = "BannerDesignerAgent" -> {"target_image_prompt"}
      [] agent = "QAComplianceAgent" -> {"final_advertising_text"}

validate(agent, payload) ==
    IF ~payload.isDict
    THEN Exc("AgentError", "Payload must be a dict")
    ELSE LET missing == required_fields(agent) \ DOMAIN payload.ctx IN
         IF missing # {} THEN MissingFields(missing) ELSE NoExc

----------------------------------------------------------------------------
(* process of the four agents.  Each returns [exc, result].                 *)

\* PromptAgent.process builds a new mapping from the brief.
prompt_process(brief) ==
    [exc |-> NoExc, calls |-> <<>>,
     result |->
        [k \in {"target_text_prompt", "target_image_prompt",
                "full_image_prompt_en", "full_image_prompt_ru", "meta"} |->
            IF k = "meta" THEN brief["product"] ELSE "prompt"]]

\* response.get("text", "") on what the broker returned
response_text(r) ==
    IF r.result.tag = "text.generate" THEN Text(r.result.val, FALSE)
    ELSE EmptyText

\* A writer that lets the failure of its broker call through.
copywriter_process_reraise(context) ==
    LET r == call("text.generate", "CopywriterAgent", 0) IN
    IF r.outcome = "returned"
    THEN [exc |-> NoExc, calls |-> <<r.outcome>>,
          result |-> Put(context, "final_advertising_text", response_text(r))]
    ELSE [exc |-> Exc(r.outcome, "text.generate"), calls |-> <<r.outcome>>,
          result |-> context]

\* CopywriterAgent.process: one broker call, any failure becomes the empty
\* text; the context is written in place and returned.
copywriter_process(context) ==
    LET r == call("text.generate", "CopywriterAgent", 0)
        final_text == IF r.outcome = "returned" THEN response_text(r)
                      ELSE EmptyText
        warned == IF final_text.len > TextLimit
                  THEN Put(context, "warning", "too long")
                  ELSE context
    IN [exc |-> NoExc, calls |-> <<r.outcome>>,
        result |-> Put(warned, "final_advertising_text", final_text)]

SuccessKeys == {"banner_url", "banner_local_path", "banner_thumbnail",
                "banner_lowres", "banner_size", "banner_generated",
                "banner_filename", "banner_prompt", "banner_prompt_file",
                "banner_timestamp", "banner_directory"}

FailureKeys == {"banner_url", "banner_local_path", "banner_generated",
                "banner_error", "banner_error_trace"}

\* BannerDesignerAgent.process: the image generation either yields an image
\* (generated = TRUE) or raises; a failure is written into the context.
designer_process(context, generated) ==
    LET keys == IF generated THEN SuccessKeys ELSE FailureKeys IN
    [exc |-> NoExc, calls |-> <<>>,
     result |->
        [k \in DOMAIN context \cup keys |->
            IF k \notin keys THEN context[k]
            ELSE IF k = "banner_generated" THEN generated
            ELSE IF k = "banner_url"
                 THEN (IF generated THEN "file://banner" ELSE "file://error")
            ELSE "set"]]

\* len(self._get_default_rules()['checks'])
DefaultChecks == 3

\* QAComplianceAgent._check_text_compliance with the default checks
check_text_compliance(text) ==
    (IF text.len > TextLimit THEN <<"text_length">> ELSE <<>>)
        \o (IF text.profane THEN <<"no_profanity">> ELSE <<>>)

\* A truthy value of the context that is not a string (a number, a list).
NotAString == "<not a string>"

\* image_url.startswith(...) needs a string
startswith_raises(image_url) == image_url = NotAString

\* QAComplianceAgent._check_image_compliance
check_image_compliance(image_url) ==
    IF image_url \in {"file://banner", "file://error", "http://banner"}
    THEN <<>>
    ELSE <<"image_url">>

\* is_approved = len(all_issues) == 0
is_approved(text_issues, image_issues) ==
    Len(text_issues \o image_issues) = 0

\* QAComplianceAgent.process
qa_process(context) ==
    LET ad_text == IF Has(context, "final_advertising_text")
                   THEN context["final_advertising_text"] ELSE EmptyText
        banner_url == IF Has(context, "banner_url")
                      THEN context["banner_url"] ELSE ""
        text_issues == check_text_compliance(ad_text)
        image_issues == IF banner_url # ""
                        THEN check_image_compliance(banner_url) ELSE <<>>
        all_issues == text_issues \o image_issues
        verdict == IF is_approved(text_issues, image_issues)
                   THEN "APPROVED" ELSE "REJECTED"
        written == {"qa_status", "qa_report", "qa_checks_passed",
                    "qa_total_checks"}
    IN IF banner_url # "" /\ startswith_raises(banner_url)
       THEN [exc |-> Exc("AttributeError", "startswith"), calls |-> <<>>,
             result |-> context]
       ELSE
       [exc |-> NoExc, calls |-> <<>>,
        result |->
           [k \in DOMAIN context \cup written |->
               IF k = "qa_status" THEN verdict
               ELSE IF k = "qa_report" THEN all_issues
               ELSE IF k = "qa_checks_passed"
                    THEN DefaultChecks - Len(text_issues)
               ELSE IF k = "qa_total_checks" THEN DefaultChecks
               ELSE context[k]]]

process(agent, context, generated) ==
    CASE agent = "PromptAgent" -> prompt_process(context)
      [] agent = "CopywriterAgent" -> copywriter_process(context)
      [] agent = "BannerDesignerAgent" -> designer_process(context, generated)
      [] agent = "QAComplianceAgent" -> qa_process(context)

----------------------------------------------------------------------------
(* BaseAgent.handle.                                                        *)
(* The security capability is absent ("none"), an object with an            *)
(* asynchronous check(payload) -> bool ("conforming", answering `allowed`), *)
(* or the repository's SecurityChecker, which has no attribute check.  The  *)
(* metrics capability is absent, an object with increment(name)             *)
(* ("conforming"), or the repository's MetricsCollector, which has no       *)
(* attribute increment.                                                     *)

SecurityKinds == {"none", "conforming", "SecurityChecker"}

MetricsKinds == {"none", "conforming", "MetricsCollector"}

\* step 1: if self.security: allowed = await self.security.check(payload)
security_step(sec, allowed) ==
    IF sec = "none" THEN NoExc
    ELSE IF sec = "SecurityChecker" THEN Exc("AttributeError", "check")
    ELSE IF ~allowed THEN Exc("AgentError", "Security policy violation")
    ELSE NoExc

\* self.metrics.increment(name): the exception it raises, if any
increment(met) ==
    IF met = "MetricsCollector" THEN Exc("AttributeError", "increment")
    ELSE NoExc

handle(agent, sec, allowed, met, payload, generated) ==
    LET secExc == security_step(sec, allowed)
        secTrace == IF sec = "conforming" THEN <<"security.check">> ELSE <<>>
        valExc == IF Raised(secExc) THEN NoExc ELSE validate(agent, payload)
        valTrace == IF Raised(secExc) THEN <<>> ELSE <<"validate">>
        proceeds == ~Raised(secExc) /\ ~Raised(valExc)
        proc == IF proceeds THEN process(agent, payload.ctx, generated)
                ELSE [exc |-> NoExc, calls |-> <<>>, result |-> EmptyCtx]
        procTrace == IF proceeds THEN <<"process">> ELSE <<>>
        \* the first exception of steps 1..3
        original == IF Raised(secExc) THEN secExc
                    ELSE IF Raised(valExc) THEN valExc
                    ELSE proc.exc
        \* step 4, inside the try block
        okMetric == IF ~Raised(original) /\ met # "none"
                    THEN increment(met) ELSE NoExc
        caught == IF Raised(original) THEN original ELSE okMetric
        \* the except block: increment the error counter, then raise
        errMetric == IF Raised(caught) /\ met # "none"
                     THEN increment(met) ELSE NoExc
        leaving == IF Raised(errMetric) THEN errMetric ELSE caught
        counted == IF met = "conforming"
                   THEN (IF Raised(caught) THEN <<"error">> ELSE <<"success">>)
                   ELSE <<>>
    IN [exc |-> leaving,
        original |-> original,
        result |-> IF Raised(leaving) THEN payload ELSE Dict(proc.result),
        trace |-> secTrace \o valTrace \o procTrace,
        counted |-> counted,
        \* what process did: whether it ran, what it raised, the broker
        \* calls it made and the context as it left it
        ran |-> proceeds,
        procExc |-> proc.exc,
        calls |-> proc.calls,
        processed |-> IF proceeds THEN proc.result ELSE payload.ctx]

----------------------------------------------------------------------------
(* Single handle calls on agents built with any capability. *)

FullBrief == [k \in BriefFields \cup {"language"} |-> "v"]

Briefs == {[k \in S |-> "v"] : S \in SUBSET (BriefFields \cup {"language"})}

Specification == prompt_process(FullBrief).result

TextLens == {0, TextLimit, TextLimit + 1}

Drafts ==
    {Put(Specification, "final_advertising_text", Text(n, p)) :
        n \in TextLens, p \in BOOLEAN}

Banners ==
    {Put(d, "banner_url", u) :
        d \in Drafts, u \in {"", "file://banner", "stub://image", NotAString}}

Payloads ==
    {NotADict} \cup {Dict(c) : c \in Briefs \cup {Specification}
                                       \cup Drafts \cup Banners}

NoHandle ==
    [agent |-> "none", sec |-> "none", allowed |-> TRUE, met |-> "none",
     payload |-> NotADict, generated |-> TRUE, exc |-> NoExc,
     original |-> NoExc, result |-> NotADict, trace |-> <<>>,
     counted |-> <<>>, ran |-> FALSE, procExc |-> NoExc, calls |-> <<>>,
     processed |-> EmptyCtx]

InitAgent == h = NoHandle

Handle(agent, sec, allowed, met, payload, generated) ==
    /\ h = NoHandle
    /\ sec # "conforming" => allowed
    /\ agent # "BannerDesignerAgent" => generated
    /\ LET r == handle(agent, sec, allowed, met, payload, generated) IN
       h' = [agent |-> agent, sec |-> sec, allowed |-> allowed, met |-> met,
             payload |-> payload, generated |-> generated, exc |-> r.exc,
             original |-> r.original, result |-> r.result,
             trace |-> r.trace, counted |-> r.counted, ran |-> r.ran,
             procExc |-> r.procExc, calls |-> r.calls,
             processed |-> r.processed]
    /\ UNCHANGED <<brokerVars, pipeVars, extVars>>

\* The caller drops the outcome; no later handle call depends on it.
Forget ==
    /\ h # NoHandle
    /\ h' = NoHandle
    /\ UNCHANGED <<brokerVars, pipeVars, extVars>>

NextAgent ==
    \/ Forget
    \/ \E agent \in AgentNames, sec \in SecurityKinds, allowed \in BOOLEAN,
       met \in MetricsKinds, payload \in Payloads, generated \in BOOLEAN :
        Handle(agent, sec, allowed, met, payload, generated)

----------------------------------------------------------------------------
(* AIAssistant.run_advertising_pipeline.                                    *)

\* AIAssistant.__init__: self.security_checker = SecurityChecker(config)
OrchestratorSecurity == "SecurityChecker"

\* AIAssistant.__init__: self.metrics_collector = MetricsCollector()
OrchestratorMetrics == "MetricsCollector"

StageOrder == <<"architect", "writer", "designer", "inspector">>

StageNames == {StageOrder[i] : i \in DOMAIN StageOrder}

AgentOf(stage) ==
    CASE stage = "architect" -> "PromptAgent"
      [] stage = "writer" -> "CopywriterAgent"
      [] stage = "designer" -> "BannerDesignerAgent"
      [] stage = "inspector" -> "QAComplianceAgent"

After(stage) ==
    CASE stage = "architect" -> "writer"
      [] stage = "writer" -> "designer"
      [] stage = "designer" -> "inspector"
      [] stage = "inspector" -> "done"

\* The permission map of the run's own broker once the four agents are
\* constructed: PromptAgent and CopywriterAgent register themselves, the
\* other two register nothing.
ConstructedPermissions ==
    [a \in {"PromptAgent", "CopywriterAgent"} |->
        IF a = "CopywriterAgent" THEN <<"text.generate">> ELSE <<>>]

NoPipeResult ==
    [qa_status |-> "none", final_advertising_text |-> EmptyText,
     banner_url |-> "", qa_report |-> <<>>, pipeline_success |-> FALSE]

\* context.get(key, default)
Get(ctx, key, default) == IF Has(ctx, key) THEN ctx[key] ELSE default

\* the mapping built after the inspector returned
format_result(ctx) ==
    [qa_status |-> Get(ctx, "qa_status", "UNKNOWN"),
     final_advertising_text |-> Get(ctx, "final_advertising_text", EmptyText),
     banner_url |-> Get(ctx, "banner_url", ""),
     qa_report |-> Get(ctx, "qa_report", <<>>),
     pipeline_success |-> TRUE]

InitPipeline ==
    /\ pc = "idle"
    /\ pipeBrief = NotADict
    /\ pipeContext = NotADict
    /\ stages = <<>>
    /\ pipeError = NoExc
    /\ pipeResult = NoPipeResult
    /\ nruns = 0

\* The call up to the first await: the broker and the agents are built.
RunPipeline(payload) ==
    /\ pc = "idle"
    /\ nruns < MaxRuns
    /\ pc' = "architect"
    /\ pipeBrief' = payload
    /\ pipeContext' = payload
    /\ stages' = <<>>
    /\ pipeError' = NoExc
    /\ pipeResult' = NoPipeResult
    /\ nruns' = nruns + 1
    /\ agent_permissions' = ConstructedPermissions
    /\ UNCHANGED <<registry, last, prev, lastRun, ncalls, nsetup, cache, h,
                   extVars>>

\* context = await agents[stage].handle(context), for the stage the run has
\* reached; an exception leaves the pipeline, the last stage formats the
\* result.
Stage(generated) ==
    /\ pc \in StageNames
    /\ AgentOf(pc) # "BannerDesignerAgent" => generated
    /\ LET r == handle(AgentOf(pc), OrchestratorSecurity, TRUE,
                       OrchestratorMetrics, pipeContext, generated)
       IN /\ stages' = Append(stages,
                 [stage |-> pc, agent |-> AgentOf(pc), exc |-> r.exc,
                  original |-> r.original, trace |-> r.trace,
                  returned |-> r.result, generated |-> generated])
          /\ pc' = IF Raised(r.exc) THEN "failed" ELSE After(pc)
          /\ pipeError' = r.exc
          /\ pipeContext' = IF Raised(r.exc) THEN pipeContext ELSE r.result
          /\ pipeResult' = IF ~Raised(r.exc) /\ pc = "inspector"
                           THEN format_result(r.result.ctx)
                           ELSE pipeResult
    /\ UNCHANGED <<brokerVars, h, pipeBrief, nruns, extVars>>

\* The caller has the result or the exception; the assistant is free again.
Return ==
    /\ pc \in {"done", "failed"}
    /\ pc' = "idle"
    /\ UNCHANGED <<brokerVars, h, pipeBrief, pipeContext, stages, pipeError,
                   pipeResult, nruns, extVars>>

NextPipeline ==
    \/ \E payload \in {NotADict} \cup {Dict(b) : b \in Briefs} :
           RunPipeline(payload)
    \/ \E generated \in BOOLEAN : Stage(generated)
    \/ Return

----------------------------------------------------------------------------
(* TextLLMAdapter.generate_ad_copy.  A text is a sequence of characters. *)

MaxReply == 4

Chars == {"A", " "}

Replies == UNION {[1 .. n -> Chars] : n \in 0 .. MaxReply}

MaxLengths == -1 .. (MaxReply + 1)

Min(a, b) == IF a < b THEN a ELSE b

Max(a, b) == IF a > b THEN a ELSE b

\* text[:k]
Slice(text, k) ==
    IF k >= 0 THEN SubSeq(text, 1, Min(k, Len(text)))
    ELSE SubSeq(text, 1, Max(Len(text) + k, 0))

RECURSIVE lstrip(_)
lstrip(text) ==
    IF text # <<>> /\ Head(text) = " " THEN lstrip(Tail(text)) ELSE text

RECURSIVE rstrip(_)
rstrip(text) ==
    IF text # <<>> /\ text[Len(text)] = " "
    THEN rstrip(SubSeq(text, 1, Len(text) - 1)) ELSE text

\* str.strip()
strip(text) == rstrip(lstrip(text))

Ellipsis == <<".", ".", ".">>

\* what generate_ad_copy does with the reply of the model
generate_ad_copy(status, content, max_length) ==
    IF status = 200
    THEN LET text == strip(content) IN
         [raised |-> FALSE,
          text |-> IF Len(text) > max_length
                   THEN Slice(text, max_length - 3) \o Ellipsis
                   ELSE text]
    ELSE [raised |-> TRUE, text |-> <<>>]

NoAdCopy == [called |-> FALSE, status |-> 0, content |-> <<>>,
             max_length |-> 0, raised |-> FALSE, text |-> <<>>]

InitAdapter == adapter = NoAdCopy

GenerateAdCopy(status, content, max_length) ==
    /\ adapter = NoAdCopy
    /\ LET r == generate_ad_copy(status, content, max_length) IN
       adapter' = [called |-> TRUE, status |-> status, content |-> content,
                   max_length |-> max_length, raised |-> r.raised,
                   text |-> r.text]
    /\ UNCHANGED <<brokerVars, h, pipeVars, asstVars, metVars, lateVars>>

\* The caller has the text; the adapter keeps nothing of the call.
AdCopyReturned ==
    /\ adapter # NoAdCopy
    /\ adapter' = NoAdCopy
    /\ UNCHANGED <<brokerVars, h, pipeVars, asstVars, metVars, lateVars>>

NextAdapter ==
    \/ \E status \in {200, 500}, content \in Replies,
          max_length \in MaxLengths :
           GenerateAdCopy(status, content, max_length)
    \/ AdCopyReturned

----------------------------------------------------------------------------
(* AIAssistant: construction, process_request and the brokers of the entry  *)
(* points.  Several entry-point calls can be in flight in one process, each *)
(* suspended at an await.                                                   *)

MaxTasks == 2

MaxStarted == 3

MaxQueries == 3

MaxHandlers == 3

MaxRequests == 4

Tasks == 1 .. MaxTasks

\* the keys of AIAssistant.agents, in the order _process_with_agents uses
AgentKeys == <<"prompt_agent", "copywriter", "banner_designer",
               "qa_compliance">>

AgentKeySet == {AgentKeys[i] : i \in DOMAIN AgentKeys}

ClassOf(key) ==
    CASE key = "prompt_agent" -> "PromptAgent"
      [] key = "copywriter" -> "CopywriterAgent"
      [] key = "banner_designer" -> "BannerDesignerAgent"
      [] key = "qa_compliance" -> "QAComplianceAgent"

\* the tools the process of an agent asks the broker for
ToolsCalled(agent) ==
    IF agent = "CopywriterAgent" THEN {"text.generate"} ELSE {}

\* _initialize_agents, after the agents are built: every permission list is
\* set to the empty list
InitializedPermissions == [a \in AgentNames |-> <<>>]

\* the context _process_with_agents starts from
RequestContext ==
    Dict([k \in BriefFields \cup {"language", "style"} |-> "v"])

SecurityOutcomes == {"pass", "reject", "raises"}

GenerationOutcomes == {"ok", "raises"}

\* A local variable: the value is computed once and the body uses it.
Bind(value, Body(_)) == CHOOSE out \in {Body(x) : x \in {value}} : TRUE

\* one agent of _process_with_agents, if it is configured and nothing has
\* raised before it
RunAgent(present, key, st, generated) ==
    IF ~(key \in present /\ ~Raised(st.exc)) THEN st
    ELSE Bind(handle(ClassOf(key), OrchestratorSecurity, TRUE,
                     OrchestratorMetrics, st.payload, generated),
              LAMBDA r :
                [exc |-> r.exc, payload |-> r.result,
                 ran |-> Append(st.ran, ClassOf(key)),
                 ad_text |-> IF key = "copywriter" THEN ~Raised(r.exc)
                             ELSE st.ad_text])

\* AIAssistant._process_with_agents
process_with_agents(present, generated) ==
    Bind([exc |-> NoExc, payload |-> RequestContext, ran |-> <<>>,
          ad_text |-> FALSE], LAMBDA s0 :
    Bind(RunAgent(present, AgentKeys[1], s0, generated), LAMBDA s1 :
    Bind(RunAgent(present, AgentKeys[2], s1, generated), LAMBDA s2 :
    Bind(RunAgent(present, AgentKeys[3], s2, generated), LAMBDA s3 :
         RunAgent(present, AgentKeys[4], s3, generated)))))

\* AIAssistant._process_basic
process_basic(gen) ==
    [exc |-> IF gen = "raises" THEN Exc("Exception", "generation") ELSE NoExc,
     payload |-> RequestContext, ran |-> <<>>, ad_text |-> gen = "ok"]

NoAnswer ==
    [raised |-> FALSE, success |-> FALSE, violation_type |-> "none",
     error_type |-> "none", ran |-> <<>>, text_generated |-> FALSE,
     compliance |-> "none", logged |-> FALSE]

\* The rest of the try block once the agents or the basic generation are
\* through: the final check, the metrics, the result.
after_generation(body, present, gen, final) ==
    LET checked == ~Raised(body.exc) /\ body.ad_text
        exc == IF Raised(body.exc) THEN body.exc
               ELSE IF checked /\ final = "raises"
                    THEN Exc("Exception", "final check")
                    ELSE NoExc
    IN [exc |-> exc,
        answer |->
           [raised |-> FALSE, success |-> ~Raised(exc),
            violation_type |-> "none", error_type |-> "none",
            ran |-> body.ran,
            text_generated |-> present = {} /\ gen = "ok",
            compliance |-> IF ~(checked /\ ~Raised(exc)) THEN "none"
                           ELSE IF final = "pass" THEN "passed"
                           ELSE "failed",
            logged |-> ~Raised(exc)]]

\* The try block of process_request: the exception it ends with, if any,
\* and the result it would return.
try_block(sec, present, gen, final) ==
    IF sec = "raises"
    THEN [exc |-> Exc("Exception", "security"), answer |-> NoAnswer]
    ELSE IF sec = "reject"
    THEN [exc |-> NoExc,
          answer |-> [NoAnswer EXCEPT !.violation_type = "INPUT_VALIDATION"]]
    ELSE Bind(IF present # {}
              THEN process_with_agents(present, gen = "ok")
              ELSE process_basic(gen),
              LAMBDA body : after_generation(body, present, gen, final))

\* A process_request without its except clause.
process_request_propagating(sec, present, gen, final) ==
    Bind(try_block(sec, present, gen, final), LAMBDA t :
         IF Raised(t.exc)
         THEN [t.answer EXCEPT !.raised = TRUE, !.success = FALSE,
                               !.error_type = t.exc.type]
         ELSE t.answer)

\* AIAssistant.process_request: whatever the try block raises is returned
\* as a result.
process_request(sec, present, gen, final) ==
    Bind(try_block(sec, present, gen, final), LAMBDA t :
         IF Raised(t.exc)
         THEN [t.answer EXCEPT !.success = FALSE, !.error_type = t.exc.type]
         ELSE t.answer)

NoTask == [entry |-> "none", pc |-> "none", broker |-> 0, sec |-> "pass",
           gen |-> "ok", final |-> "pass", answer |-> NoAnswer]

InitAssistant ==
    /\ built = FALSE
    /\ agents = {}
    /\ shared_permissions = EmptyMap
    /\ tasks = [t \in Tasks |-> NoTask]
    /\ nbrokers = 0
    /\ nstarted = 0

\* AIAssistant(): _initialize_agents builds one broker, the agents the
\* configuration names, and sets the permission lists.
NewAssistant(workflow) ==
    /\ ~built
    /\ built' = TRUE
    /\ agents' = workflow
    /\ shared_permissions' = InitializedPermissions
    /\ nbrokers' = 1
    /\ UNCHANGED <<brokerVars, h, pipeVars, adapter, metVars, lateVars,
                   tasks, nstarted>>

\* run_advertising_pipeline up to its first await: it builds a broker of
\* its own and four agents bound to it.
StartPipeline(t) ==
    /\ built
    /\ tasks[t].entry = "none"
    /\ nstarted < MaxStarted
    /\ tasks' = [tasks EXCEPT ![t] =
                    [NoTask EXCEPT !.entry = "run_advertising_pipeline",
                                   !.pc = "stages",
                                   !.broker = nbrokers + 1]]
    /\ nbrokers' = nbrokers + 1
    /\ nstarted' = nstarted + 1
    /\ UNCHANGED <<brokerVars, h, pipeVars, adapter, metVars, lateVars,
                   built, agents,
                   shared_permissions>>

\* run_advertising_pipeline returns or raises; its broker is dropped.
FinishPipeline(t) ==
    /\ tasks[t].entry = "run_advertising_pipeline"
    /\ tasks' = [tasks EXCEPT ![t] = NoTask]
    /\ UNCHANGED <<brokerVars, h, pipeVars, adapter, metVars, lateVars,
                   built, agents,
                   shared_permissions, nbrokers, nstarted>>

\* process_request up to the await of the input security check.
BeginRequest(t, sec, gen, final) ==
    /\ built
    /\ tasks[t].entry = "none"
    /\ nstarted < MaxStarted
    /\ tasks' = [tasks EXCEPT ![t] =
                    [NoTask EXCEPT !.entry = "process_request",
                                   !.pc = "security", !.sec = sec,
                                   !.gen = gen, !.final = final]]
    /\ nstarted' = nstarted + 1
    /\ UNCHANGED <<brokerVars, h, pipeVars, adapter, metVars, lateVars,
                   built, agents,
                   shared_permissions, nbrokers>>

\* The security check has answered: a rejection or an exception ends the
\* request, otherwise the agents of self.agents (bound to the broker of
\* _initialize_agents) or the basic generation start.
SecurityChecked(t) ==
    /\ tasks[t].entry = "process_request"
    /\ tasks[t].pc = "security"
    /\ tasks' = [tasks EXCEPT ![t] =
          IF tasks[t].sec = "pass"
          THEN [@ EXCEPT !.pc = "generating",
                         !.broker = IF agents # {} THEN 1 ELSE 0]
          ELSE [@ EXCEPT !.pc = "done",
                         !.answer = process_request(tasks[t].sec, agents,
                                                    tasks[t].gen,
                                                    tasks[t].final)]]
    /\ UNCHANGED <<brokerVars, h, pipeVars, adapter, metVars, lateVars,
                   built, agents,
                   shared_permissions, nbrokers, nstarted>>

\* The generation, the final check and the metrics are through.
Generated(t) ==
    /\ tasks[t].entry = "process_request"
    /\ tasks[t].pc = "generating"
    /\ tasks' = [tasks EXCEPT ![t] =
          [@ EXCEPT !.pc = "done", !.broker = 0,
                    !.answer = process_request(tasks[t].sec, agents,
                                               tasks[t].gen,
                                               tasks[t].final)]]
    /\ UNCHANGED <<brokerVars, h, pipeVars, adapter, metVars, lateVars,
                   built, agents,
                   shared_permissions, nbrokers, nstarted>>

\* The caller has the result of process_request.
Answered(t) ==
    /\ tasks[t].entry = "process_request"
    /\ tasks[t].pc = "done"
    /\ tasks' = [tasks EXCEPT ![t] = NoTask]
    /\ UNCHANGED <<brokerVars, h, pipeVars, adapter, metVars, lateVars,
                   built, agents,
                   shared_permissions, nbrokers, nstarted>>

NextAssistant ==
    \/ \E workflow \in SUBSET AgentKeySet : NewAssistant(workflow)
    \/ \E t \in Tasks : StartPipeline(t)
    \/ \E t \in Tasks : FinishPipeline(t)
    \/ \E t \in Tasks, sec \in SecurityOutcomes, gen \in GenerationOutcomes,
          final \in SecurityOutcomes : BeginRequest(t, sec, gen, final)
    \/ \E t \in Tasks : SecurityChecked(t)
    \/ \E t \in Tasks : Generated(t)
    \/ \E t \in Tasks : Answered(t)

----------------------------------------------------------------------------
(* MetricsCollector (observability/metric_collector.py).  Several threads
   call log_query, get_metrics and reset_metrics on one collector.  Every
   statement inside a "with self._lock" block is a step of its own, and an
   augmented assignment is two steps, a load and a store, because a thread
   switch can fall between them. *)

Threads == 1 .. 2

Intents == {"intent1", "intent2"}

ResponseTimes == {-1, 1}

EmptyLocal ==
    [total_queries |-> 0, successful_responses |-> 0, total_time |-> 0,
     intent_distribution |-> EmptyMap]

IdleThread ==
    [op |-> "none", at |-> "idle", intent |-> "none", success |-> FALSE,
     response_time |-> 0, reg |-> 0, view |-> EmptyLocal]

NoneApplied == [n |-> 0, ok |-> 0, by |-> {}]

NoSnapshot ==
    [taken |-> FALSE, total_queries |-> 0, successful_responses |-> 0,
     total_time |-> 0, intent_distribution |-> EmptyMap,
     applied |-> NoneApplied]

\* dict.get(key, 0)
Count(d, key) == IF key \in DOMAIN d THEN d[key] ELSE 0

\* d[key] = value
SetCount(d, key, value) ==
    [k \in (DOMAIN d) \cup {key} |-> IF k = key THEN value ELSE d[k]]

\* "with self._lock": the block is entered when no thread holds the lock
CanAcquire_unguarded == TRUE

CanAcquire == ~lock

\* the statement a block starts with, by the line of its "with"
FirstStatement(at) ==
    CASE at = "l66" -> "l67"
      [] at = "l87" -> "l88"
      [] at = "l125" -> "l126"

\* the store that follows a load of log_query
StoreOf(at) ==
    CASE at = "l67" -> "l67w"
      [] at = "l69" -> "l69w"
      [] at = "l70" -> "l70w"
      [] at = "l71" -> "l71w"

\* the value an augmented assignment of log_query loads
Loaded(th) ==
    CASE threads[th].at = "l67" -> local.total_queries
      [] threads[th].at = "l69" -> local.successful_responses
      [] threads[th].at = "l70" -> local.total_time
      [] threads[th].at = "l71" ->
             Count(local.intent_distribution, threads[th].intent)

\* the mapping after the store of an augmented assignment of log_query
Stored(th) ==
    CASE threads[th].at = "l67w" ->
             [local EXCEPT !.total_queries = threads[th].reg + 1]
      [] threads[th].at = "l69w" ->
             [local EXCEPT !.successful_responses = threads[th].reg + 1]
      [] threads[th].at = "l70w" ->
             [local EXCEPT !.total_time =
                 threads[th].reg + threads[th].response_time]
      [] threads[th].at = "l71w" ->
             [local EXCEPT !.intent_distribution =
                 SetCount(local.intent_distribution, threads[th].intent,
                     threads[th].reg + 1)]

\* the statement after a store of log_query
AfterStore(th) ==
    CASE threads[th].at = "l67w" ->
             (IF threads[th].success THEN "l69" ELSE "l70")
      [] threads[th].at = "l69w" -> "l70"
      [] threads[th].at = "l70w" -> "l71"
      [] threads[th].at = "l71w" -> "exit"

InitMetrics ==
    /\ local = EmptyLocal
    /\ lock = FALSE
    /\ threads = [th \in Threads |-> IdleThread]
    /\ applied = NoneApplied
    /\ snapshot = NoSnapshot
    /\ nqueries = 0

\* log_query up to the lock: a negative response time is zeroed
log_query(th, intent, response_time, success) ==
    /\ threads[th].at = "idle"
    /\ nqueries < MaxQueries
    /\ threads' = [threads EXCEPT ![th] =
           [IdleThread EXCEPT !.op = "log_query", !.at = "l66",
               !.intent = intent, !.success = success,
               !.response_time = Max(response_time, 0)]]
    /\ nqueries' = nqueries + 1
    /\ UNCHANGED <<local, lock, applied, snapshot>>
    /\ UNCHANGED <<brokerVars, h, pipeVars, adapter, asstVars, lateVars>>

get_metrics(th) ==
    /\ threads[th].at = "idle"
    /\ threads' = [threads EXCEPT ![th] =
           [IdleThread EXCEPT !.op = "get_metrics", !.at = "l87"]]
    /\ UNCHANGED <<local, lock, applied, snapshot, nqueries>>
    /\ UNCHANGED <<brokerVars, h, pipeVars, adapter, asstVars, lateVars>>

reset_metrics(th) ==
    /\ threads[th].at = "idle"
    /\ threads' = [threads EXCEPT ![th] =
           [IdleThread EXCEPT !.op = "reset_metrics", !.at = "l125"]]
    /\ UNCHANGED <<local, lock, applied, snapshot, nqueries>>
    /\ UNCHANGED <<brokerVars, h, pipeVars, adapter, asstVars, lateVars>>

\* entering a "with self._lock" block; a log_query that enters is from now
\* on one of the calls made since the last reset
Acquire(th) ==
    /\ threads[th].at \in {"l66", "l87", "l125"}
    /\ CanAcquire
    /\ lock' = TRUE
    /\ threads' = [threads EXCEPT ![th].at = FirstStatement(threads[th].at)]
    /\ applied' =
           IF threads[th].op = "log_query"
           THEN [n |-> applied.n + 1,
                 ok |-> applied.ok + (IF threads[th].success THEN 1 ELSE 0),
                 by |-> applied.by \cup {th}]
           ELSE applied
    /\ UNCHANGED <<local, snapshot, nqueries>>
    /\ UNCHANGED <<brokerVars, h, pipeVars, adapter, asstVars, lateVars>>

Load(th) ==
    /\ threads[th].at \in {"l67", "l69", "l70", "l71"}
    /\ threads' = [threads EXCEPT ![th].reg = Loaded(th),
                                  ![th].at = StoreOf(threads[th].at)]
    /\ UNCHANGED <<local, lock, applied, snapshot, nqueries>>
    /\ UNCHANGED <<brokerVars, h, pipeVars, adapter, asstVars, lateVars>>

Store(th) ==
    /\ threads[th].at \in {"l67w", "l69w", "l70w", "l71w"}
    /\ local' = Stored(th)
    /\ threads' = [threads EXCEPT ![th].at = AfterStore(th)]
    /\ UNCHANGED <<lock, applied, snapshot, nqueries>>
    /\ UNCHANGED <<brokerVars, h, pipeVars, adapter, asstVars, lateVars>>

\* the four reads of get_metrics, lines 88 to 91; the last one decides the
\* mapping get_metrics returns
Read(th) ==
    /\ threads[th].at \in {"l88", "l89", "l90", "l91"}
    /\ threads' = [threads EXCEPT
           ![th].view =
               CASE threads[th].at = "l88" ->
                        [@ EXCEPT !.total_queries = local.total_queries]
                 [] threads[th].at = "l89" ->
                        [@ EXCEPT !.successful_responses =
                            local.successful_responses]
                 [] threads[th].at = "l90" ->
                        [@ EXCEPT !.total_time = local.total_time]
                 [] threads[th].at = "l91" ->
                        [@ EXCEPT !.intent_distribution =
                            local.intent_distribution],
           ![th].at =
               CASE threads[th].at = "l88" -> "l89"
                 [] threads[th].at = "l89" -> "l90"
                 [] threads[th].at = "l90" -> "l91"
                 [] threads[th].at = "l91" -> "exit"]
    /\ snapshot' =
           IF threads[th].at = "l91"
           THEN [taken |-> TRUE,
                 total_queries |-> threads[th].view.total_queries,
                 successful_responses |->
                     threads[th].view.successful_responses,
                 total_time |-> threads[th].view.total_time,
                 intent_distribution |-> local.intent_distribution,
                 applied |-> applied]
           ELSE snapshot
    /\ UNCHANGED <<local, lock, applied, nqueries>>
    /\ UNCHANGED <<brokerVars, h, pipeVars, adapter, asstVars, lateVars>>

\* reset_metrics, line 126: a fresh mapping replaces _local
Replace(th) ==
    /\ threads[th].at = "l126"
    /\ local' = EmptyLocal
    /\ applied' = NoneApplied
    /\ threads' = [threads EXCEPT ![th].at = "exit"]
    /\ UNCHANGED <<lock, snapshot, nqueries>>
    /\ UNCHANGED <<brokerVars, h, pipeVars, adapter, asstVars, lateVars>>

\* leaving the "with" block
Release(th) ==
    /\ threads[th].at = "exit"
    /\ lock' = FALSE
    /\ threads' = [threads EXCEPT ![th] = IdleThread]
    /\ UNCHANGED <<local, applied, snapshot, nqueries>>
    /\ UNCHANGED <<brokerVars, h, pipeVars, adapter, asstVars, lateVars>>

NextMetrics ==
    \/ \E th \in Threads, intent \in Intents, response_time \in ResponseTimes,
          success \in BOOLEAN : log_query(th, intent, response_time, success)
    \/ \E th \in Threads : get_metrics(th)
    \/ \E th \in Threads : reset_metrics(th)
    \/ \E th \in Threads : Acquire(th)
    \/ \E th \in Threads : Load(th)
    \/ \E th \in Threads : Store(th)
    \/ \E th \in Threads : Read(th)
    \/ \E th \in Threads : Replace(th)
    \/ \E th \in Threads : Release(th)

----------------------------------------------------------------------------
(* QAComplianceAgent with the rules the orchestrator hands over.  The rules *)
(* are what the JSON loader returned for the rules file: nothing, a value   *)
(* that is not a mapping, or a mapping with or without a list of checks.    *)

\* A rule of a check list.  kind "callable": a mapping whose 'check' is a
\* function (the default rules); "named": a mapping with a 'name' and no
\* 'check'; "uncallable": a mapping whose 'check' came from the file and is
\* not a function; "other": an entry that is not a mapping.
Rule(kind, name, max_chars) ==
    [kind |-> kind, name |-> name, max_chars |-> max_chars]

\* rule.get('max_chars', 160) of a rule without max_chars
NoMaxChars == TextLimit

\* QAComplianceAgent._get_default_rules()['checks']
default_checks ==
    <<Rule("callable", "text_length", NoMaxChars),
      Rule("callable", "no_profanity", NoMaxChars),
      Rule("callable", "no_scam_keywords", NoMaxChars)>>

\* the checks of minimal_rules, written when no rules file is found
minimal_checks ==
    <<Rule("named", "text_length", TextLimit),
      Rule("named", "no_profanity", NoMaxChars)>>

\* a larger limit a rules file can carry
FileLimit == 200

FileRules ==
    {Rule("named", "text_length", TextLimit),
     Rule("named", "text_length", FileLimit),
     Rule("named", "no_profanity", NoMaxChars),
     Rule("named", "has_cta", NoMaxChars),
     Rule("uncallable", "text_length", NoMaxChars),
     Rule("other", "none", NoMaxChars)}

Rules(isDict, truthy, hasChecks, checks) ==
    [isDict |-> isDict, truthy |-> truthy, hasChecks |-> hasChecks,
     checks |-> checks]

\* rules=None, or an empty value loaded from the file
NoRules == Rules(FALSE, FALSE, FALSE, <<>>)

DefaultRules == Rules(TRUE, TRUE, TRUE, default_checks)

MinimalRules == Rules(TRUE, TRUE, TRUE, minimal_checks)

\* what the rules file can hold
LoadedRules ==
    {NoRules, Rules(FALSE, TRUE, FALSE, <<>>), Rules(TRUE, TRUE, FALSE, <<>>),
     Rules(TRUE, TRUE, TRUE, <<>>)}
        \cup {Rules(TRUE, TRUE, TRUE, <<r>>) : r \in FileRules}
        \cup {Rules(TRUE, TRUE, TRUE, <<r1, r2>>) :
                 r1 \in FileRules, r2 \in FileRules}

RuleSets == {DefaultRules, MinimalRules} \cup LoadedRules

\* An advertising text for the checks: its length and whether it holds a
\* word of the profanity list, a scam phrase, a call to action.
AdText(n, profane, scam, cta) ==
    [len |-> n, profane |-> profane, scam |-> scam, cta |-> cta]

AdTexts ==
    {AdText(n, p, s, c) :
        n \in {0, TextLimit, TextLimit + 1, FileLimit, FileLimit + 1},
        p \in BOOLEAN, s \in BOOLEAN, c \in BOOLEAN}

\* __init__: self.rules = rules or self._get_default_rules()
rules_or_default(rules) == IF rules.truthy THEN rules ELSE DefaultRules

\* one turn of the loop over the checks: the issues the rule adds.  An
\* exception of the rule (a 'check' that cannot be called) is caught and
\* adds nothing.
rule_issues(rule, text) ==
    CASE rule.kind = "callable" ->
             (CASE rule.name = "text_length" ->
                       (IF text.len <= TextLimit THEN <<>>
                        ELSE <<"text_length">>)
                [] rule.name = "no_profanity" ->
                       (IF text.profane THEN <<"no_profanity">> ELSE <<>>)
                [] rule.name = "no_scam_keywords" ->
                       (IF text.scam THEN <<"no_scam_keywords">> ELSE <<>>))
      [] rule.kind = "named" ->
             (CASE rule.name = "text_length" ->
                       (IF text.len > rule.max_chars THEN <<"text_length">>
                        ELSE <<>>)
                [] rule.name = "no_profanity" ->
                       (IF text.profane THEN <<"no_profanity">> ELSE <<>>)
                [] rule.name = "has_cta" ->
                       (IF text.cta THEN <<>> ELSE <<"has_cta">>))
      [] rule.kind = "uncallable" -> <<>>
      [] rule.kind = "other" -> <<>>

RECURSIVE checks_issues(_, _)
checks_issues(checks, text) ==
    IF checks = <<>> THEN <<>>
    ELSE rule_issues(Head(checks), text) \o checks_issues(Tail(checks), text)

\* QAComplianceAgent._check_text_compliance for the rules of the agent
text_compliance(rules, text) ==
    IF ~rules.isDict THEN <<"rules format">>
    ELSE IF rules.checks = <<>> THEN checks_issues(default_checks, text)
    ELSE checks_issues(rules.checks, text)

\* QAComplianceAgent.process of an agent built with the given rules, on a
\* context with the text and no banner
inspect(rules, text) ==
    LET own == rules_or_default(rules)
        text_issues == text_compliance(own, text)
        total_checks == IF own.isDict /\ own.hasChecks THEN Len(own.checks)
                        ELSE Len(default_checks)
    IN [qa_status |-> IF Len(text_issues) = 0 THEN "APPROVED"
                      ELSE "REJECTED",
        qa_report |-> text_issues,
        qa_checks_passed |-> total_checks - Len(text_issues),
        qa_total_checks |-> total_checks]

NoInspection ==
    [made |-> FALSE, rules |-> NoRules, text |-> AdText(0, FALSE, FALSE, FALSE),
     qa_status |-> "none", qa_report |-> <<>>, qa_checks_passed |-> 0,
     qa_total_checks |-> 0]

InitInspector == qa = NoInspection

\* The inspector is built with the rules and handles a context.
Inspect(rules, text) ==
    /\ ~qa.made
    /\ LET r == inspect(rules, text) IN
       qa' = [made |-> TRUE, rules |-> rules, text |-> text,
              qa_status |-> r.qa_status, qa_report |-> r.qa_report,
              qa_checks_passed |-> r.qa_checks_passed,
              qa_total_checks |-> r.qa_total_checks]
    /\ UNCHANGED <<brokerVars, h, pipeVars, adapter, asstVars, metVars, got,
                   secured, apiVars>>

\* The verdict is handed back; the next run builds a new inspector.
Inspected ==
    /\ qa.made
    /\ qa' = NoInspection
    /\ UNCHANGED <<brokerVars, h, pipeVars, adapter, asstVars, metVars, got,
                   secured, apiVars>>

NextInspector ==
    \/ \E rules \in RuleSets, text \in AdTexts : Inspect(rules, text)
    \/ Inspected

----------------------------------------------------------------------------
(* InMemoryCachePolicy on its own: set and get on the store. *)

\* Python's None, stored as a value or returned by dict.get for a miss
NoneValue == [tag |-> "None", val |-> 0]

\* InMemoryCachePolicy.get: self._store.get(key)
cache_get(key) == IF key \in DOMAIN cache THEN cache[key] ELSE NoneValue

NoGet == [made |-> FALSE, key |-> <<"none", 0>>, present |-> FALSE,
          value |-> NoneValue]

InitCache == got = NoGet

\* a get, with whether the store held the key when it was made
Lookup(key) ==
    /\ got' = [made |-> TRUE, key |-> key, present |-> key \in DOMAIN cache,
               value |-> cache_get(key)]
    /\ UNCHANGED <<brokerVars, h, pipeVars, adapter, asstVars, metVars, qa,
                   secured, apiVars>>

NextCache ==
    \/ \E key \in CacheKeys, value \in {StoredResult, NoneValue} :
           cache_set(key, value)
    \/ \E key \in CacheKeys : Lookup(key)

----------------------------------------------------------------------------
(* A broker built with an external security checker.  MCPServer.__init__    *)
(* keeps the checker in self.security; call does not read it.               *)

\* security_checker: absent, or an object that answers every check with
\* yes, or one that answers every check with no
Checkers == {"none", "accepts", "rejects"}

NoSecuredCall ==
    [made |-> FALSE, checker |-> "none", tool |-> "none", agent |-> NoAgent,
     kw |-> 0, registered |-> FALSE, outcome |-> "none",
     result |-> NoResult, execs |-> 0, sleeps |-> 0, checks |-> 0]

InitSecured == secured = NoSecuredCall

\* MCPServer(registry, security_checker=checker).call(tool_name, agent_name,
\* **kwargs); checks counts the invocations of the checker
SecuredCall(checker, tool_name, agent_name, kw) ==
    /\ LET r == call(tool_name, agent_name, kw) IN
       secured' = [made |-> TRUE, checker |-> checker, tool |-> tool_name,
                   agent |-> agent_name, kw |-> kw,
                   registered |-> tool_name \in DOMAIN registry,
                   outcome |-> r.outcome, result |-> r.result,
                   execs |-> r.execs, sleeps |-> r.sleeps, checks |-> 0]
    /\ UNCHANGED <<brokerVars, h, pipeVars, adapter, asstVars, metVars, qa,
                   got, apiVars>>

NextSecured ==
    \/ \E t \in ToolNames, k \in Behaviours : register(t, k)
    \/ \E checker \in Checkers, t \in ToolNames,
          a \in AgentNames \cup {NoAgent}, kw \in Kwargs :
           SecuredCall(checker, t, a, kw)

----------------------------------------------------------------------------
(* The HTTP API (api/main.py): AppState and the handler of                  *)
(* POST /api/generate.  Each request runs in a coroutine of its own; the    *)
(* coroutines interleave at the awaits.  An await of request_queue.get()    *)
(* completes only while the queue holds an entry.                           *)

Handlers == 1 .. MaxHandlers

IdleRequest ==
    [at |-> "idle", id |-> 0, removed |-> <<>>, status |-> 0]

InitApi ==
    /\ state = [started |-> FALSE, assistant |-> "None",
                total_requests |-> 0, successful_requests |-> 0]
    /\ request_queue = <<>>
    /\ reqs = [r \in Handlers |-> IdleRequest]
    /\ nreqs = 0

\* lifespan: AppState() and init_assistant, which leaves state.assistant
\* None when AIAssistant() raises
init_assistant(constructed) ==
    /\ ~state.started
    /\ state' = [state EXCEPT !.started = TRUE,
                     !.assistant = IF constructed THEN "AIAssistant"
                                   ELSE "None"]
    /\ UNCHANGED <<request_queue, reqs, nreqs>>
    /\ UNCHANGED <<brokerVars, h, pipeVars, adapter, asstVars, metVars, qa,
                   got, secured>>

\* generate_banner up to its first pending await: without an assistant the
\* HTTPException takes it to the except block, otherwise it puts its entry
\* and awaits the pipeline
generate_banner(r) ==
    /\ state.started
    /\ reqs[r].at = "idle"
    /\ nreqs < MaxRequests
    /\ nreqs' = nreqs + 1
    /\ reqs' = [reqs EXCEPT ![r] =
           [IdleRequest EXCEPT !.id = nreqs + 1,
               !.at = IF state.assistant = "None" THEN "l261" ELSE "l223"]]
    /\ request_queue' = IF state.assistant = "None" THEN request_queue
                        ELSE Append(request_queue, nreqs + 1)
    /\ UNCHANGED state
    /\ UNCHANGED <<brokerVars, h, pipeVars, adapter, asstVars, metVars, qa,
                   got, secured>>

\* run_advertising_pipeline answers: a result takes the handler to the get
\* of line 245, an exception to the get of line 261
PipelineAnswered(r, raised) ==
    /\ reqs[r].at = "l223"
    /\ reqs' = [reqs EXCEPT ![r].at = IF raised THEN "l261" ELSE "l245"]
    /\ state' = IF raised THEN state
                ELSE [state EXCEPT
                         !.total_requests = @ + 1,
                         !.successful_requests = @ + 1]
    /\ UNCHANGED <<request_queue, nreqs>>
    /\ UNCHANGED <<brokerVars, h, pipeVars, adapter, asstVars, metVars, qa,
                   got, secured>>

\* await state.request_queue.get() completes with the oldest entry; the
\* handler then builds its response
QueueGet(r) ==
    /\ reqs[r].at \in {"l245", "l261"}
    /\ request_queue # <<>>
    /\ request_queue' = Tail(request_queue)
    /\ reqs' = [reqs EXCEPT
           ![r].removed = Append(@, Head(request_queue)),
           ![r].status = IF reqs[r].at = "l245" THEN 200 ELSE 500,
           ![r].at = "returned"]
    /\ UNCHANGED <<state, nreqs>>
    /\ UNCHANGED <<brokerVars, h, pipeVars, adapter, asstVars, metVars, qa,
                   got, secured>>

\* the response is sent and the coroutine ends
Respond(r) ==
    /\ reqs[r].at = "returned"
    /\ reqs' = [reqs EXCEPT ![r] = IdleRequest]
    /\ UNCHANGED <<state, request_queue, nreqs>>
    /\ UNCHANGED <<brokerVars, h, pipeVars, adapter, asstVars, metVars, qa,
                   got, secured>>

NextApi ==
    \/ \E constructed \in BOOLEAN : init_assistant(constructed)
    \/ \E r \in Handlers : generate_banner(r)
    \/ \E r \in Handlers, raised \in BOOLEAN : PipelineAnswered(r, raised)
    \/ \E r \in Handlers : QueueGet(r)
    \/ \E r \in Handlers : Respond(r)

\* the event loop runs every coroutine that can go on
ApiFairness ==
    \A r \in Handlers :
        /\ WF_vars(\E raised \in BOOLEAN : PipelineAnswered(r, raised))
        /\ WF_vars(QueueGet(r))
        /\ WF_vars(Respond(r))

----------------------------------------------------------------------------
(* The specifications. *)

Init ==
    /\ InitBroker /\ InitAgent /\ InitPipeline /\ InitAdapter /\ InitAssistant
    /\ InitMetrics /\ InitInspector /\ InitCache
    /\ InitSecured /\ InitApi

SpecBroker == Init /\ [][NextBroker]_vars

SpecAgent == Init /\ [][NextAgent]_vars

SpecPipeline == Init /\ [][NextPipeline]_vars

SpecAdapter == Init /\ [][NextAdapter]_vars

SpecAssistant == Init /\ [][NextAssistant]_vars

SpecMetrics == Init /\ [][NextMetrics]_vars

SpecInspector == Init /\ [][NextInspector]_vars

SpecCache == Init /\ [][NextCache]_vars

SpecSecured == Init /\ [][NextSecured]_vars

SpecApi == Init /\ [][NextApi]_vars

SpecApiLive == SpecApi /\ ApiFairness

Next ==
    \/ NextBroker \/ NextAgent \/ NextPipeline \/ NextAdapter \/ NextAssistant
    \/ NextMetrics \/ NextInspector \/ NextCache \/ NextSecured
    \/ NextApi

----------------------------------------------------------------------------
(* Claims about the broker, checked under SpecBroker. *)

Made == last.tool # "none"

\* C1: whenever the calling agent has a registered permission set that does
\* not contain the tool, the call fails with SecurityError and execute is
\* not invoked.
C1_PermissionDenied ==
    (Made /\ last.hasPerms /\ ~last.permitted)
        => (last.outcome = "SecurityError" /\ last.execs = 0)

\* C2: whenever the tool is registered, succeeds when executed, and is in the
\* calling agent's permitted set, the call invokes execute with the keyword
\* arguments and returns exactly the value execute returned.
C2_PermissionAllowed ==
    (Made /\ last.registered /\ last.permitted
          /\ last.behaviour < DefaultRetries)
        => (/\ last.outcome = "returned"
            /\ last.execs >= 1
            /\ last.result = ExecuteValue(last.tool, last.kw))

\* C3: a registered, permitted tool that raises on every invocation is
\* executed exactly `retries` times with retries - 1 sleeps, and the call
\* fails with ToolExecutionError.
C3_RetryExhaustion ==
    (Made /\ last.registered /\ last.permitted
          /\ last.behaviour >= DefaultRetries)
        => (/\ last.execs = DefaultRetries
            /\ last.sleeps = DefaultRetries - 1
            /\ last.outcome = "ToolExecutionError")

\* C4: a registered, permitted tool that fails on attempts 1..k and succeeds
\* on attempt k+1 (k < retries) makes the call return the success value after
\* exactly k+1 invocations of execute.
C4_RetryRecovery ==
    \A k \in 0 .. (DefaultRetries - 1) :
        (Made /\ last.registered /\ last.permitted /\ last.behaviour = k)
            => (/\ last.outcome = "returned"
                /\ last.execs = k + 1
                /\ last.sleeps = k)

SamePair ==
    /\ prev.outcome = "returned"
    /\ last.outcome = "returned"
    /\ prev.tool = last.tool
    /\ prev.kw = last.kw

CacheKey == <<last.tool, StrHash(last.kw)>>

CacheHit == Made /\ CacheKey \in DOMAIN last.cached

\* C18: a call whose key is in the cache returns the stored result and
\* executes nothing, whoever the calling agent is.
C18_CacheHitShortCircuits ==
    CacheHit =>
        /\ last.outcome = "returned"
        /\ last.result = last.cached[CacheKey]
        /\ last.execs = 0
        /\ last.sleeps = 0

\* C19: a call for a tool name that is not in the registry (and not served
\* from the cache) fails with ToolNotFoundError, with no attempt, no sleep
\* and no write to the cache, image.generate and compliance.check included.
C19_UnregisteredNotFound ==
    (Made /\ ~last.registered /\ ~CacheHit) =>
        /\ last.outcome = "ToolNotFoundError"
        /\ last.execs = 0
        /\ last.sleeps = 0
        /\ last.stored = last.cached

----------------------------------------------------------------------------
(* Claims about the pipeline, checked under SpecPipeline. *)

Finished == pc \in {"done", "failed"}

MissingOf(payload) == BriefFields \ DOMAIN payload.ctx

LacksField == pipeBrief.isDict /\ MissingOf(pipeBrief) # {}

ValidBrief == pipeBrief.isDict /\ MissingOf(pipeBrief) = {}

\* What the context must hold once stage i has returned.
KeysAfter(i) ==
    CASE i = 1 -> {"target_text_prompt", "target_image_prompt"}
      [] i = 2 -> {"final_advertising_text"}
      [] i = 3 -> {"banner_url"}
      [] i = 4 -> {"qa_status"}

\* C6: a run on a brief that lacks one of product, product_type, audience,
\* goal aborts at stage 1 with an error naming the missing fields, and no
\* handle of the writer, the designer or the inspector is started.
C6_MissingFieldAborts ==
    LacksField =>
        /\ \A i \in DOMAIN stages : stages[i].agent = "PromptAgent"
        /\ Finished =>
              /\ pc = "failed"
              /\ Len(stages) = 1
              /\ pipeError.missing = MissingOf(pipeBrief)

\* C7: a run on a valid brief runs architect, writer, designer, inspector in
\* this order, each after the previous one returned, the context holds the
\* keys of each stage once it has returned, and the run ends with qa_status
\* APPROVED or REJECTED.
C7_StagesInOrder ==
    ValidBrief =>
        /\ \A i \in DOMAIN stages :
              /\ stages[i].stage = StageOrder[i]
              /\ i > 1 => ~Raised(stages[i - 1].exc)
              /\ ~Raised(stages[i].exc) =>
                     KeysAfter(i) \subseteq DOMAIN stages[i].returned.ctx
        /\ Finished =>
              /\ pc = "done"
              /\ Len(stages) = Len(StageOrder)
              /\ pipeResult.qa_status \in {"APPROVED", "REJECTED"}

\* C8: a run on a valid brief in which no collaborator fails ends with a
\* final_advertising_text of 1 to 160 characters and a non-empty banner_url.
C8_ValidBriefYieldsAd ==
    (Finished /\ ValidBrief /\ \A i \in DOMAIN stages : stages[i].generated)
        => /\ pc = "done"
           /\ pipeResult.final_advertising_text.len >= 1
           /\ pipeResult.final_advertising_text.len <= TextLimit
           /\ pipeResult.banner_url # ""

\* C9: a handle whose security check, validate or process raised lets that
\* same exception leave, and it is the last handle of the run.
C9_FailFast ==
    \A i \in DOMAIN stages :
        Raised(stages[i].original) =>
            /\ stages[i].exc = stages[i].original
            /\ i = Len(stages)

----------------------------------------------------------------------------
(* Claims about single handle calls, checked under SpecAgent. *)

Handled == h.agent # "none"

\* C10: handle runs security check, validate, process in this order; a
\* negative answer of the security capability makes it fail with AgentError
\* before validate and process, and process is not run for a payload that
\* validate rejects.
C10_FixedOrder ==
    Handled =>
        /\ h.trace \in {<<>>, <<"security.check">>, <<"validate">>,
                        <<"security.check", "validate">>,
                        <<"validate", "process">>,
                        <<"security.check", "validate", "process">>}
        /\ (h.sec = "conforming" /\ ~h.allowed) =>
              (h.exc.type = "AgentError" /\ h.trace = <<"security.check">>)
        /\ Raised(validate(h.agent, h.payload)) => ~InList("process", h.trace)

\* C11: once QAComplianceAgent.process has run it has not raised, the context
\* holds qa_status APPROVED or REJECTED and a qa_report list, and qa_status
\* is APPROVED exactly when qa_report is empty.
C11_AlwaysVerdict ==
    (h.agent = "QAComplianceAgent" /\ h.ran) =>
        /\ ~Raised(h.procExc)
        /\ {"qa_status", "qa_report"} \subseteq DOMAIN h.processed
        /\ h.processed["qa_status"] \in {"APPROVED", "REJECTED"}
        /\ h.processed["qa_report"] \in Seq({"text_length", "no_profanity",
                                             "image_url"})
        /\ (h.processed["qa_status"] = "APPROVED")
              <=> (h.processed["qa_report"] = <<>>)

\* C12: when the image generation fails inside BannerDesignerAgent.process,
\* process does not raise, the context holds banner_generated false,
\* banner_error and a banner_url, and the agent returns it to the pipeline,
\* which can go on to the inspector.
C12_BannerFailureContained ==
    (h.agent = "BannerDesignerAgent" /\ h.ran /\ ~h.generated) =>
        /\ ~Raised(h.procExc)
        /\ {"banner_generated", "banner_error", "banner_url"}
               \subseteq DOMAIN h.processed
        /\ h.processed["banner_generated"] = FALSE
        /\ h.processed["banner_url"] # ""
        /\ ~Raised(h.exc)
        /\ h.result = Dict(h.processed)

\* C13: CopywriterAgent.process makes exactly one broker call, and when that
\* call fails, process does not raise, writes the empty string as
\* final_advertising_text and returns the context with its other keys.
C13_WriterDowngrades ==
    (h.agent = "CopywriterAgent" /\ h.ran) =>
        /\ Len(h.calls) = 1
        /\ h.calls[1] # "returned" =>
              /\ ~Raised(h.procExc)
              /\ DOMAIN h.payload.ctx \subseteq DOMAIN h.processed
              /\ "final_advertising_text" \in DOMAIN h.processed
              /\ h.processed["final_advertising_text"] = EmptyText

\* The writer has processed a context and its broker call has failed.
C13_Witness ==
    /\ h.agent = "CopywriterAgent"
    /\ h.ran
    /\ h.calls = <<"ToolNotFoundError">>

----------------------------------------------------------------------------
(* Claims about the text adapter, checked under SpecAdapter. *)

EndsWith(text, suffix) ==
    /\ Len(text) >= Len(suffix)
    /\ SubSeq(text, Len(text) - Len(suffix) + 1, Len(text)) = suffix

\* C17: the text generate_ad_copy returns is at most max_length long, and a
\* reply longer than max_length comes back cut to exactly max_length
\* characters ending in '...'.
C17_TruncatedToMaxLength ==
    (adapter.called /\ ~adapter.raised) =>
        /\ Len(adapter.text) <= adapter.max_length
        /\ Len(strip(adapter.content)) > adapter.max_length =>
              /\ Len(adapter.text) = adapter.max_length
              /\ EndsWith(adapter.text, Ellipsis)

----------------------------------------------------------------------------
(* Claims about the assistant, checked under SpecAssistant. *)

\* C14: two entry-point calls in flight at the same time never work on the
\* same broker, for run_advertising_pipeline and for process_request.
C14_BrokerPerRun ==
    \A t1, t2 \in Tasks :
        (t1 # t2 /\ tasks[t1].broker # 0 /\ tasks[t2].broker # 0)
            => tasks[t1].broker # tasks[t2].broker

Requested(t) == tasks[t].entry = "process_request" /\ tasks[t].pc = "done"

\* C16: process_request never raises; a rejected input check yields success
\* false with violation_type INPUT_VALIDATION and runs no agent and no text
\* generation; an exception in the try block yields success false with its
\* error type.
C16_RequestNeverRaises ==
    \A t \in Tasks :
        Requested(t) =>
            LET a == tasks[t].answer
                e == try_block(tasks[t].sec, agents, tasks[t].gen,
                               tasks[t].final).exc
            IN /\ ~a.raised
               /\ tasks[t].sec = "reject" =>
                     /\ ~a.success
                     /\ a.violation_type = "INPUT_VALIDATION"
                     /\ a.ran = <<>>
                     /\ ~a.text_generated
               /\ Raised(e) => (~a.success /\ a.error_type = e.type)

\* A request whose agents raised has been answered.
C16_Witness ==
    \E t \in Tasks :
        /\ Requested(t)
        /\ tasks[t].sec = "pass"
        /\ agents # {}
        /\ tasks[t].answer.ran # <<>>
        /\ tasks[t].answer.error_type = "AttributeError"

\* C20: once the orchestrator has built its agents and set the permissions,
\* the permitted set of every agent holds the tools the agent calls
\* (text.generate for CopywriterAgent).
C20_PermissionsCoverCalls ==
    built =>
        \A key \in agents :
            \A tool \in ToolsCalled(ClassOf(key)) :
                /\ ClassOf(key) \in DOMAIN shared_permissions
                /\ InList(tool, shared_permissions[ClassOf(key)])


----------------------------------------------------------------------------
(* Claims about the metrics collector, checked under SpecMetrics. *)

RECURSIVE SumOver(_, _)
SumOver(d, keys) ==
    IF keys = {} THEN 0
    ELSE LET k == CHOOSE x \in keys : TRUE
         IN  d[k] + SumOver(d, keys \ {k})

Total(d) == SumOver(d, DOMAIN d)

\* C15: whatever the interleaving of the threads, the mapping get_metrics
\* returns has total_queries equal to the number of log_query calls made
\* since the last reset, successful_responses equal to the number of those
\* with success true, and intent counts that sum to the number of calls.
C15_NoLostUpdate ==
    snapshot.taken =>
        /\ snapshot.total_queries = snapshot.applied.n
        /\ snapshot.successful_responses = snapshot.applied.ok
        /\ Total(snapshot.intent_distribution) = snapshot.applied.n

\* get_metrics answers after calls from two threads, one of them failed,
\* while another thread is waiting for the lock
C15_Witness ==
    /\ snapshot.taken
    /\ snapshot.applied.n >= 2
    /\ snapshot.applied.by = Threads
    /\ snapshot.applied.ok < snapshot.applied.n
    /\ snapshot.applied.ok > 0
    /\ snapshot.total_queries = snapshot.applied.n
    /\ \E th \in Threads : threads[th].at = "l66" /\ lock


----------------------------------------------------------------------------
(* Further claims about the broker, checked under SpecBroker. *)

\* C21: a set_agent_permissions(A, l) makes get_agent_permissions(A) return
\* exactly l, whatever A had before, and leaves the answer for every other
\* agent as it was; no other operation changes an answer, and an agent that
\* was never set has the empty list.
C21_LastWriteWins ==
    [][/\ \A a \in AgentNames, l \in PermLists :
              set_agent_permissions(a, l) =>
                  /\ get_agent_permissions(a)' = l
                  /\ \A b \in AgentNames \ {a} :
                         get_agent_permissions(b)' = get_agent_permissions(b)
       /\ (\A a \in AgentNames, l \in PermLists :
               ~set_agent_permissions(a, l)) =>
              \A b \in AgentNames :
                  get_agent_permissions(b)' = get_agent_permissions(b)
       /\ \A b \in AgentNames :
              b \notin DOMAIN agent_permissions =>
                  get_agent_permissions(b) = <<>>]_vars

\* permissions were set twice, both times for the same agent
C21_Witness ==
    /\ nsetup = 2
    /\ registry = EmptyMap
    /\ cache = EmptyMap
    /\ Cardinality(DOMAIN agent_permissions) = 1
    /\ get_agent_permissions("CopywriterAgent") = <<"text.generate">>


\* the latest call repeats a call that failed
RepeatsFailure ==
    /\ Made
    /\ prev.tool = last.tool
    /\ prev.kw = last.kw
    /\ prev.outcome \in {"SecurityError", "ToolNotFoundError",
                         "ToolExecutionError"}

\* C26: a call that fails leaves the cache as it was, a call that returns
\* after executing the tool stores the result under the key of its lookup,
\* and a call that repeats a failed call for a tool that is registered and
\* permitted executes the tool again.
C26_CacheWrittenOnSuccessOnly ==
    /\ (Made /\ last.outcome # "returned") => last.stored = last.cached
    /\ (Made /\ last.outcome = "returned" /\ ~CacheHit) =>
           /\ CacheKey \in DOMAIN last.stored
           /\ last.stored[CacheKey] = last.result
    /\ (RepeatsFailure /\ last.registered /\ ~CacheHit
            /\ (last.hasPerms => last.permitted)) => last.execs >= 1

----------------------------------------------------------------------------
(* Further claims about handle, checked under SpecAgent. *)

\* validate was reached and raised: process did not run
ValidationFailed ==
    /\ h.agent # "none"
    /\ Len(h.trace) > 0
    /\ h.trace[Len(h.trace)] = "validate"
    /\ ~h.ran

\* C22: whenever validate rejects the payload, because it is not a mapping
\* or because it lacks a key the agent requires, handle fails with
\* AgentError.
C22_ValidationIsAgentError ==
    ValidationFailed => h.exc.type = "AgentError"


\* C23: a handle call on an agent with a metrics capability increments
\* exactly one counter, the success counter when security check, validate
\* and process all succeeded and the error counter when one of them raised.
C23_ExactlyOneCounter ==
    (h.agent # "none" /\ h.met # "none") =>
        /\ Len(h.counted) = 1
        /\ h.counted[1] = (IF Raised(h.original) THEN "error" ELSE "success")

\* C30: when security check, validate and process all succeed, handle
\* returns what process returned, and when one of them raises, that
\* exception leaves handle, whatever the metrics capability does.
C30_MetricsDoNotDecide ==
    h.agent # "none" =>
        /\ h.exc = h.original
        /\ ~Raised(h.original) => h.result = Dict(h.processed)


\* the keys a stage writes
OwnedKeys(agent) ==
    CASE agent = "PromptAgent" -> DOMAIN Specification
      [] agent = "CopywriterAgent" -> {"final_advertising_text", "warning"}
      [] agent = "BannerDesignerAgent" -> SuccessKeys \cup FailureKeys
      [] agent = "QAComplianceAgent" ->
             {"qa_status", "qa_report", "qa_checks_passed", "qa_total_checks"}

\* C24: the context a stage's handle returns has every key the context had
\* before the stage, with the same value unless the stage owns the key; the
\* keys of the brief are therefore still there after the first stage.
C24_ContextOnlyGrows ==
    (h.agent # "none" /\ h.payload.isDict /\ ~Raised(h.exc)) =>
        \A k \in DOMAIN h.payload.ctx :
            /\ k \in DOMAIN h.result.ctx
            /\ k \notin OwnedKeys(h.agent) =>
                   h.result.ctx[k] = h.payload.ctx[k]


----------------------------------------------------------------------------
(* Claims about the inspector's rules, checked under SpecInspector. *)

\* C25: whatever rules the inspector was built with, a text longer than 160
\* characters gets qa_status REJECTED and a qa_report with a text_length
\* issue.
C25_LongTextRejected ==
    (qa.made /\ qa.text.len > TextLimit) =>
        /\ qa.qa_status = "REJECTED"
        /\ InList("text_length", qa.qa_report)


----------------------------------------------------------------------------
(* Claims about the cache policy, checked under SpecCache. *)

\* what get returns for a key that was never set
Miss == cache_get(<<"never set", 0>>)

\* C27: a get for a key the store holds, the empty value None included,
\* returns something different from what a get for a key that was never set
\* returns.
C27_MissIsNotStoredNone ==
    (got.made /\ got.present) => got.value # Miss


----------------------------------------------------------------------------
(* Claims about a broker with a security checker, checked under SpecSecured. *)

\* C28: a call on a broker whose external security checker answers no fails
\* with SecurityError, without any invocation of execute and without any
\* retry.
C28_CheckerRejects ==
    (secured.made /\ secured.checker = "rejects") =>
        /\ secured.outcome = "SecurityError"
        /\ secured.execs = 0
        /\ secured.sleeps = 0


----------------------------------------------------------------------------
(* Claims about the HTTP API, checked under SpecApiLive. *)

InFlight(r) == reqs[r].at # "idle"

\* C29: every request that was received gets its response; a handler never
\* stands at a get while the queue is empty, removes no entry but its own,
\* and the queue is empty whenever no request is in flight.
C29_EveryRequestAnswered ==
    /\ \A r \in Handlers : InFlight(r) ~> (reqs[r].at = "returned")
    /\ [](\A r \in Handlers :
              reqs[r].at \in {"l245", "l261"} => request_queue # <<>>)
    /\ [](\A r \in Handlers :
              reqs[r].removed \in {<<>>, <<reqs[r].id>>})
    /\ []((\A r \in Handlers : ~InFlight(r)) => request_queue = <<>>)

====
